---- MODULE Spec2Model ----
(***************************************************************************)
(* Model of the apps v2 service (pkg/services/apps/v2.go): the Create and  *)
(* Update operations of V2Service, their helpers saveAppRules,             *)
(* pruneAppRules, pruneParameters and GetOne, run against a remote store   *)
(* reached through the four-verb Repository.  One step of the model is one *)
(* Repository call together with the local code that follows it, or one    *)
(* local return.  Every Repository call may fail.                          *)
(***************************************************************************)
EXTENDS Integers, Sequences, FiniteSets, TLC

\* ------------------------------------------------------------------ bounds
\* Longest desired rule list (app.Rules).
MaxRules == 2
\* Largest identifier a desired rule or parameter carries.
MaxId == 2
\* Most entries of the desired parameter map (app.Parameters).
MaxParams == 1
\* Most child items of the remote parent before the operation: it holds the
\* rules 1..n and the parameters 1..m for some n + m <= MaxRemote.
MaxRemote == 2

\* The processes: each runs one Orchestrator operation on an App of its own.
Procs == {1, 2}

VARIABLES
  loc,     \* loc[p]: the locals of process p's running operation
  remote   \* the remote store: the parent's rules and parameters

vars == <<loc, remote>>

\* ------------------------------------------------------- optional values
\* A *int32 (or *App): Nil, or a pointer to a value.
Nil == <<>>
Ptr(v) == <<v>>
Deref(ptr) == ptr[1]

Ids == 1..MaxId
OptIds == {Nil} \cup {Ptr(k) : k \in Ids}

\* The id parameter of Update, and the identifier the remote gives a created app.
AppID == 7

\* ------------------------------------------------------------------ URLs
\* fmt.Sprintf("%s/...", svc.Endpoint, ...) as the path below the host.
AppsURL == <<"apps">>
AppURL(id) == <<"apps", id>>
RulesURL(id) == <<"apps", id, "rules">>
RuleURL(id, rule) == <<"apps", id, "rules", rule>>
\* A parameter endpoint spelt as the rule endpoint.
ParameterURLAsRule(id, param) == RuleURL(id, param)
ParameterURL(id, param) == <<"apps", id, "parameters", param>>

\* ---------------------------------------------------------------- errors
\* An error is the sequence of the messages it carries; a transport error
\* carries one message, the number of the failed call in the process's log.
NoErr == <<>>
TransportErr(l) == <<Len(l.calls) + 1>>

\* customerrors.StackErrors: nil for no errors, else one error whose text
\* concatenates the constituents' messages in encounter order.
RECURSIVE StackErrors(_)
StackErrors(errs) ==
  IF errs = <<>> THEN NoErr ELSE Head(errs) \o StackErrors(Tail(errs))

\* ------------------------------------------------------------- responses
\* The body of a child create/update response: Ptr(k) for {"id": k}, Nil for
\* a body without an id field.
\* var ruleID map[string]int; json.Unmarshal(resp, &ruleID); ruleID["id"]:
\* a missing key reads as the zero value.
RuleIDOf(body) == IF body = Nil THEN 0 ELSE Deref(body)

\* The ascending sequence of a set of identifiers (a JSON array of a read).
RECURSIVE SeqOf(_)
SeqOf(S) ==
  IF S = {} THEN <<>>
  ELSE LET m == CHOOSE x \in S : \A y \in S : x <= y
       IN <<m>> \o SeqOf(S \ {m})

\* The zero App (var newApp App) and an App value.
ZeroApp == [ID |-> Nil, Parameters |-> {}, Rules |-> <<>>]
MkApp(id, params, rules) == [ID |-> id, Parameters |-> params, Rules |-> rules]

\* ------------------------------------------------------------- the state
\* Desired rule lists: a sequence of optional identifiers, no identifier twice.
RuleLists ==
  {s \in UNION {[1..n -> OptIds] : n \in 0..MaxRules} :
     \A a, b \in DOMAIN s : (a # b /\ s[a] # Nil) => s[a] # s[b]}
\* Desired parameter maps: entry name k |-> optional identifier, no identifier
\* twice.  The code never reads the names, so one naming stands for all:
\* identifiers ascending, the entries without identifier last.
ParamMaps ==
  {s \in UNION {[1..n -> OptIds] : n \in 0..MaxParams} :
     \A a, b \in DOMAIN s :
       a < b => (s[a] # Nil /\ (s[b] # Nil => Deref(s[a]) < Deref(s[b])))}

Idle ==
  [op |-> "none", pc |-> "idle", round |-> 0, start |-> 0,
   rules |-> <<>>, inRules |-> <<>>, params |-> <<>>,
   upd |-> ZeroApp, i |-> 0, writeErrors |-> <<>>, resps |-> <<>>,
   savedRules |-> <<>>, j |-> 0, cand |-> {}, delErrors |-> <<>>,
   err |-> NoErr, pruneRuleErr |-> NoErr, pruneParamErr |-> NoErr,
   cont |-> "none", got |-> ZeroApp, ret |-> [app |-> Nil, err |-> NoErr],
   snap |-> [rules |-> {}, params |-> {}],
   calls |-> <<>>]

\* A call of Create(app) or Update(AppID, app) about to issue its first request.
Entry(op, rules, params) ==
  [Idle EXCEPT !.op = op, !.pc = "parent", !.round = 1,
               !.rules = rules, !.inRules = rules, !.params = params]

\* The remote store before the operation: for Update the parent exists with
\* rules 1..n and parameters 1..m; for Create it does not exist yet and the
\* server will give it the parameters 1..m.  A created rule gets the next
\* unused identifier.
\* echo: whether the server answers every rule update with {"id": k}, the
\* wire format of a child response; if not, an update may be answered with a
\* body without an id field.
\* faulty: whether a Repository call may fail.
Remotes(op, echo) ==
  {[exists |-> (op = "Update"),
    rules |-> IF op = "Update" THEN 1..nm[1] ELSE {},
    params |-> 1..nm[2], nextRule |-> MaxId + MaxRemote + 1, echo |-> echo,
    faulty |-> TRUE] :
     nm \in {q \in (0..MaxRemote) \X (0..MaxRemote) : q[1] + q[2] <= MaxRemote}}

\* One caller, about to run Create or Update on some desired App.
InitWith(echo) ==
  \E op \in {"Create", "Update"}, rules \in RuleLists, params \in ParamMaps :
    /\ loc = [p \in Procs |-> IF p = 1 THEN Entry(op, rules, params) ELSE Idle]
    /\ remote \in Remotes(op, echo)

Init == InitWith(TRUE)

\* The outcomes of a Repository call: it succeeds, or (err != nil) it fails.
Outcomes == IF remote.faulty THEN BOOLEAN ELSE {TRUE}
\* The outcomes of an Update or Destroy call on a child item: over a
\* transport that does not fail, the server still rejects a call on an item
\* it does not hold.
ItemOutcomes(held) == IF remote.faulty THEN BOOLEAN ELSE {held}

Log(l, verb, url, ok) ==
  [l EXCEPT !.calls = Append(@, [verb |-> verb, url |-> url, ok |-> ok])]

\* ------------------------------------------------------ Create and Update
\* v2.go 104-106: Create returns at once when the parent call failed.
CreateParentFailed(l, err) ==
  [l EXCEPT !.pc = "done", !.ret = [app |-> Ptr(ZeroApp), err |-> err]]

\* An Update that goes on to a recovery read when the parent call failed.
UpdateParentFailedRecover(l, err) ==
  [l EXCEPT !.pc = "getone_app", !.cont = "recoverSave", !.err = err,
            !.upd = MkApp(Ptr(AppID), {}, <<>>)]

\* v2.go 130-132: Update returns at once when the parent call failed.
UpdateParentFailed(l, err) ==
  [l EXCEPT !.pc = "done", !.ret = [app |-> Ptr(ZeroApp), err |-> err]]

\* v2.go 98-108: the parent Create call, then newApp.Rules = app.Rules.
CreateParent(p) ==
  /\ loc[p].pc = "parent" /\ loc[p].op = "Create"
  /\ \E ok \in Outcomes :
       LET l == loc[p]
           lg == Log(l, "Create", AppsURL, ok)
       IN IF ok
          THEN /\ remote' = [remote EXCEPT !.exists = TRUE]
               /\ loc' = [loc EXCEPT ![p] =
                    [lg EXCEPT !.upd = MkApp(Ptr(AppID), remote.params, <<>>),
                               !.pc = "save", !.i = 1]]
          ELSE /\ remote' = remote
               /\ loc' = [loc EXCEPT ![p] = CreateParentFailed(lg, TransportErr(l))]

\* v2.go 124-134: the parent Update call, then updatedApp.Rules = app.Rules.
UpdateParent(p) ==
  /\ loc[p].pc = "parent" /\ loc[p].op = "Update"
  /\ \E ok \in Outcomes :
       LET l == loc[p]
           lg == Log(l, "Update", AppURL(AppID), ok)
       IN /\ remote' = remote
          /\ IF ok
             THEN loc' = [loc EXCEPT ![p] =
                    [lg EXCEPT !.upd = MkApp(Ptr(AppID), remote.params, <<>>),
                               !.pc = "save", !.i = 1]]
             ELSE loc' = [loc EXCEPT ![p] = UpdateParentFailed(lg, TransportErr(l))]

\* ---------------------------------------------------------- saveAppRules
\* The bodies a successful rule create may answer with: the identifier the
\* server gave the rule.
CreateBodies(k) == {Ptr(k)}
\* The bodies a successful rule update may answer with: the rule's identifier,
\* or (a server that does not echo) a body without an id field.
UpdateBodies(k) == IF remote.echo THEN {Ptr(k)} ELSE {Ptr(k), Nil}

\* An upsert that creates every rule.
IsNewAlways(rule) == TRUE

\* v2.go 241: a rule without identifier is new.
IsNew(rule) == rule = Nil

\* A save that leaves the rule's identifier as it was.
BoundIDKeep(old, body) == old

\* v2.go 264-268: on success the identifier parsed from the response is bound.
BoundID(old, body) == Ptr(RuleIDOf(body))

\* A loop that stops at the first failed call.
SaveNextFailFast(i, n, ok) == IF ok THEN i + 1 ELSE n + 1

\* v2.go 240: the loop goes on to the next rule whatever the call's outcome.
SaveNext(i, n, ok) == i + 1

\* A loop that visits the rules from the last to the first.
SaveOrderReverse(i, n) == n + 1 - i

\* v2.go 240: for i := range app.Rules visits the indices ascending; the
\* index of the rule the i-th iteration of n handles.
SaveOrder(i, n) == i

\* The rule the loop is at.
SaveIndex(l) == SaveOrder(l.i, Len(l.rules))

\* A binding that does not look at the call's error.
BindsAlways(ok) == TRUE

\* v2.go 264: if err == nil, with the err the call of this iteration set.
Binds(ok) == ok

\* One iteration of the loop, v2.go 240-269, after the call answered.
SaveStep(l, verb, url, ok, body) ==
  LET lg == Log(l, verb, url, ok)
  IN [lg EXCEPT
        !.rules = IF Binds(ok)
                  THEN [@ EXCEPT ![SaveIndex(l)] = BoundID(@, body)] ELSE @,
        !.writeErrors = IF ok THEN @ ELSE Append(@, TransportErr(l)),
        !.resps = Append(@, [ok |-> ok, body |-> body]),
        !.i = SaveNext(l.i, Len(l.rules), ok)]

\* v2.go 241-251: a rule carrying an identifier is updated at its endpoint.
SaveRuleUpdate(p) ==
  /\ loc[p].pc = "save" /\ loc[p].i <= Len(loc[p].rules)
  /\ ~IsNew(loc[p].rules[SaveIndex(loc[p])])
  /\ LET l == loc[p]
         k == Deref(l.rules[SaveIndex(l)])
         url == RuleURL(Deref(l.upd.ID), k)
     IN \E ok \in ItemOutcomes(k \in remote.rules) :
        \E body \in (IF ok THEN UpdateBodies(k) ELSE {Nil}) :
          /\ loc' = [loc EXCEPT ![p] = SaveStep(l, "Update", url, ok, body)]
          /\ remote' = remote

\* v2.go 252-263: a rule without identifier is created at the collection.
SaveRuleCreate(p) ==
  /\ loc[p].pc = "save" /\ loc[p].i <= Len(loc[p].rules)
  /\ IsNew(loc[p].rules[SaveIndex(loc[p])])
  /\ LET l == loc[p]
         k == remote.nextRule
         url == RulesURL(Deref(l.upd.ID))
     IN \E ok \in Outcomes : \E body \in (IF ok THEN CreateBodies(k) ELSE {Nil}) :
          /\ loc' = [loc EXCEPT ![p] = SaveStep(l, "Create", url, ok, body)]
          /\ remote' = IF ok
                       THEN [remote EXCEPT !.rules = @ \cup {k}, !.nextRule = k + 1]
                       ELSE remote

\* An operation that goes on to the prunes whatever saveAppRules returned.
AfterSaveAlwaysPrune(op, err) == [pc |-> "prune_read", cont |-> "none"]

\* What Create (v2.go 109-117) and Update (v2.go 136-144) do with the
\* error of saveAppRules: a recovery read, the final read, or the prunes.
AfterSave(op, err) ==
  IF err # NoErr THEN [pc |-> "getone_app", cont |-> "recoverSave"]
  ELSE IF op = "Create" THEN [pc |-> "getone_app", cont |-> "final"]
  ELSE [pc |-> "prune_read", cont |-> "none"]

\* v2.go 270: return customerrors.StackErrors(writeErrors), and the caller's branch.
SaveRulesReturn(p) ==
  /\ loc[p].pc = "save" /\ loc[p].i > Len(loc[p].rules)
  /\ LET l == loc[p]
         err == StackErrors(l.writeErrors)
         to == AfterSave(l.op, err)
     IN loc' = [loc EXCEPT ![p] =
                  [l EXCEPT !.err = err, !.pc = to.pc, !.cont = to.cont]]
  /\ remote' = remote

\* --------------------------------------------------------- pruneAppRules
\* v2.go 134 and 144: updatedApp.Rules = app.Rules shares the backing array,
\* so the &app.Rules handed to pruneAppRules holds the identifiers bound by
\* saveAppRules.
RequestedRules(l) == l.rules

\* v2.go 213-216 and 178-181: the keep map, keyed by *item.ID.
KeepMap(requested) == {Deref(requested[k]) : k \in DOMAIN requested}
\* *item.ID of an item without identifier is a nil dereference (a panic).
HasNilID(requested) == \E k \in DOMAIN requested : requested[k] = Nil

\* A keep map of the identifiers the caller's rules carried at entry.
RuleKeepMapAtEntry(l) ==
  {Deref(l.inRules[k]) : k \in {x \in DOMAIN l.inRules : l.inRules[x] # Nil}}

\* v2.go 213-216: the keep map of pruneAppRules, from the requested rules.
RuleKeepMap(l) == KeepMap(RequestedRules(l))
\* v2.go 178-181: the keep map of pruneParameters, from the requested parameters.
ParamKeepMap(l) == KeepMap(l.params)

\* A prune that destroys every remote item.
IsDelCandidateAll(keepMap, id) == TRUE

\* v2.go 218 and 184: whether a remote item is destroyed.
IsDelCandidate(keepMap, id) == id \notin keepMap

\* A re-read that yields the remote rules also when the call failed.
SavedRulesOfStale(ok, rules) == SeqOf(rules)

\* A re-read that yields no rules.
SavedRulesOfNone(ok, rules) == <<>>

\* v2.go 205-211: resp, _ := Read(...); json.Unmarshal(resp, &savedRules):
\* the rules read, or none when the call failed (no body to parse).
SavedRulesOf(ok, rules) == IF ok THEN SeqOf(rules) ELSE <<>>

\* v2.go 205-216: the re-read of the remote rules (its error is dropped; a
\* failed read leaves savedRules empty), then the keep map.
PruneRulesRead(p) ==
  /\ loc[p].pc = "prune_read"
  /\ \E ok \in Outcomes :
       LET l == loc[p]
           lg == Log(l, "Read", RulesURL(Deref(l.upd.ID)), ok)
       IN loc' = [loc EXCEPT ![p] =
            [lg EXCEPT !.savedRules = SavedRulesOf(ok, remote.rules),
                       !.delErrors = <<>>, !.j = 1,
                       !.pc = IF HasNilID(RequestedRules(l))
                              THEN "panic" ELSE "prune_rules"]]
  /\ remote' = remote

\* v2.go 217-218: a remote rule found in the keep map is passed over.
PruneRuleKeep(p) ==
  /\ loc[p].pc = "prune_rules" /\ loc[p].j <= Len(loc[p].savedRules)
  /\ LET l == loc[p]
     IN /\ ~IsDelCandidate(RuleKeepMap(l), l.savedRules[l.j])
        /\ loc' = [loc EXCEPT ![p] = [l EXCEPT !.j = @ + 1]]
  /\ remote' = remote

\* v2.go 218-227: a remote rule not in the keep map is destroyed.
PruneRuleDestroy(p) ==
  /\ loc[p].pc = "prune_rules" /\ loc[p].j <= Len(loc[p].savedRules)
  /\ LET l == loc[p]
         id == l.savedRules[l.j]
     IN /\ IsDelCandidate(RuleKeepMap(l), id)
        /\ \E ok \in ItemOutcomes(id \in remote.rules) :
             LET lg == Log(l, "Destroy", RuleURL(Deref(l.upd.ID), id), ok)
             IN /\ loc' = [loc EXCEPT ![p] =
                     [lg EXCEPT !.j = @ + 1,
                                !.delErrors = IF ok THEN @
                                              ELSE Append(@, TransportErr(l))]]
                /\ remote' = IF ok THEN [remote EXCEPT !.rules = @ \ {id}]
                             ELSE remote

\* An Update that skips the parameter prune when the rule prune failed.
AfterRulePruneSkip(pruneRuleErr) ==
  IF pruneRuleErr # NoErr
  THEN [pc |-> "getone_app", cont |-> "recoverPrune"]
  ELSE [pc |-> "prune_params_enter", cont |-> "none"]

\* v2.go 144-145: pruneParameters is called next, whatever pruneAppRules
\* returned.
AfterRulePrune(pruneRuleErr) == [pc |-> "prune_params_enter", cont |-> "none"]

\* v2.go 229: return customerrors.StackErrors(delErrors), into pruneRuleErr.
PruneRulesReturn(p) ==
  /\ loc[p].pc = "prune_rules" /\ loc[p].j > Len(loc[p].savedRules)
  /\ LET e == StackErrors(loc[p].delErrors)
         to == AfterRulePrune(e)
     IN loc' = [loc EXCEPT ![p] =
          [loc[p] EXCEPT !.pruneRuleErr = e, !.pc = to.pc, !.cont = to.cont]]
  /\ remote' = remote

\* ------------------------------------------------------- pruneParameters
\* v2.go 177-183: the keep map of the desired parameters; the candidates are
\* the parameters of the updated parent (no separate read).
PruneParamsEnter(p) ==
  /\ loc[p].pc = "prune_params_enter"
  /\ loc' = [loc EXCEPT ![p] =
       [loc[p] EXCEPT !.delErrors = <<>>, !.cand = loc[p].upd.Parameters,
                      !.pc = IF HasNilID(loc[p].params)
                             THEN "panic" ELSE "prune_params"]]
  /\ remote' = remote

\* v2.go 183-184: a parameter found in the keep map is passed over (a Go map
\* is ranged over in no fixed order).
PruneParamKeep(p) ==
  /\ loc[p].pc = "prune_params"
  /\ \E id \in loc[p].cand :
       /\ ~IsDelCandidate(ParamKeepMap(loc[p]), id)
       /\ loc' = [loc EXCEPT ![p] = [loc[p] EXCEPT !.cand = @ \ {id}]]
  /\ remote' = remote

\* v2.go 184-192: a parameter not in the keep map is destroyed.
PruneParamDestroy(p) ==
  /\ loc[p].pc = "prune_params"
  /\ \E id \in loc[p].cand : \E ok \in ItemOutcomes(id \in remote.params) :
       LET l == loc[p]
           lg == Log(l, "Destroy", ParameterURL(Deref(l.upd.ID), id), ok)
       IN /\ IsDelCandidate(ParamKeepMap(l), id)
          /\ loc' = [loc EXCEPT ![p] =
               [lg EXCEPT !.cand = @ \ {id},
                          !.delErrors = IF ok THEN @
                                        ELSE Append(@, TransportErr(l))]]
          /\ remote' = IF ok THEN [remote EXCEPT !.params = @ \ {id}]
                       ELSE remote

\* v2.go 147: after both prunes, a recovery read or the final read.
AfterPrune(pruneRuleErr, pruneParamErr) ==
  IF pruneRuleErr # NoErr \/ pruneParamErr # NoErr
  THEN "recoverPrune" ELSE "final"

\* v2.go 194: return customerrors.StackErrors(delErrors), into pruneParamErr.
PruneParamsReturn(p) ==
  /\ loc[p].pc = "prune_params" /\ loc[p].cand = {}
  /\ LET l == loc[p]
         e == StackErrors(l.delErrors)
     IN loc' = [loc EXCEPT ![p] =
          [l EXCEPT !.pruneParamErr = e, !.pc = "getone_app",
                    !.cont = AfterPrune(l.pruneRuleErr, e)]]
  /\ remote' = remote

\* ----------------------------------------------- GetOne and the returns
\* v2.go 110-114: Create's recovery after a failed saveAppRules.
CreateRecover(err, recoveredAppState, recoverErr) ==
  IF recoverErr # NoErr THEN [app |-> Nil, err |-> err]
  ELSE [app |-> recoveredAppState, err |-> err]

\* A recovery that reports the read's error when the read failed.
UpdateRecoverReadErr(err, recoveredAppState, recoverErr) ==
  IF recoverErr # NoErr THEN [app |-> Nil, err |-> recoverErr]
  ELSE [app |-> recoveredAppState, err |-> err]

\* v2.go 137-141: Update's recovery after a failed saveAppRules.
UpdateRecover(err, recoveredAppState, recoverErr) ==
  IF recoverErr # NoErr THEN [app |-> Nil, err |-> err]
  ELSE [app |-> recoveredAppState, err |-> err]

\* A recovery that reports the parameter prune's failure first.
UpdatePruneRecoverParamFirst(err, pruneRuleErr, pruneParamErr, recoveredAppState, recoverErr) ==
  IF recoverErr # NoErr THEN [app |-> Nil, err |-> err]
  ELSE IF pruneParamErr # NoErr
       THEN [app |-> recoveredAppState, err |-> pruneParamErr]
       ELSE [app |-> recoveredAppState, err |-> pruneRuleErr]

\* v2.go 148-155: Update's recovery after a failed prune; err is still the
\* (nil) result of saveAppRules.
UpdatePruneRecover(err, pruneRuleErr, pruneParamErr, recoveredAppState, recoverErr) ==
  IF recoverErr # NoErr THEN [app |-> Nil, err |-> err]
  ELSE IF pruneRuleErr # NoErr
       THEN [app |-> recoveredAppState, err |-> pruneRuleErr]
       ELSE [app |-> recoveredAppState, err |-> pruneParamErr]

\* A return of the updated parent as the operation holds it, unread.
FinalReadStale(l, app, err) ==
  [app |-> Ptr([l.upd EXCEPT !.Rules = [k \in DOMAIN l.rules |-> Deref(l.rules[k])]]),
   err |-> NoErr]

\* v2.go 117 and 158: return svc.GetOne(...).
FinalRead(l, app, err) == [app |-> app, err |-> err]

\* What the operation returns once GetOne has returned (app, err).
Returned(l, app, err) ==
  IF l.cont = "final" THEN FinalRead(l, app, err)
  ELSE IF l.cont = "recoverPrune"
       THEN UpdatePruneRecover(l.err, l.pruneRuleErr, l.pruneParamErr, app, err)
  ELSE IF l.op = "Create" THEN CreateRecover(l.err, app, err)
  ELSE UpdateRecover(l.err, app, err)

\* v2.go 67-77: GetOne's read of the app; on failure GetOne returns (nil, err).
GetOneApp(p) ==
  /\ loc[p].pc = "getone_app"
  /\ \E ok \in Outcomes :
       LET l == loc[p]
           lg == Log(l, "Read", AppURL(Deref(l.upd.ID)), ok)
       IN loc' = [loc EXCEPT ![p] =
            IF ok
            THEN [lg EXCEPT !.got = MkApp(Ptr(AppID), remote.params, <<>>),
                            !.pc = "getone_rules"]
            ELSE [lg EXCEPT !.pc = "done",
                            !.ret = Returned(l, Nil, TransportErr(l))]]
  /\ remote' = remote

\* v2.go 78-91: GetOne's read of the rules; on failure GetOne returns the
\* app without rules and the error.
GetOneRules(p) ==
  /\ loc[p].pc = "getone_rules"
  /\ \E ok \in Outcomes :
       LET l == loc[p]
           lg == Log(l, "Read", RulesURL(Deref(l.got.ID)), ok)
           app == IF ok THEN [l.got EXCEPT !.Rules = SeqOf(remote.rules)]
                  ELSE l.got
       IN loc' = [loc EXCEPT ![p] =
            [lg EXCEPT !.got = app, !.pc = "done",
                       !.ret = Returned(l, Ptr(app),
                                        IF ok THEN NoErr ELSE TransportErr(l))]]
  /\ remote' = remote

\* ------------------------------------------------------------- re-apply
AllOk(l) == \A n \in l.start + 1 .. Len(l.calls) : l.calls[n].ok

\* The caller, the only one there is, runs Update a second time with the same
\* App value, a desired set whose every item carried an identifier, after a
\* first Update all of whose calls succeeded.
Reapply(p) ==
  /\ loc[p].pc = "done" /\ loc[p].op = "Update" /\ loc[p].round = 1
  /\ \A q \in Procs \ {p} : loc[q].pc = "idle"
  /\ AllOk(loc[p])
  /\ ~HasNilID(loc[p].inRules) /\ ~HasNilID(loc[p].params)
  /\ loc' = [loc EXCEPT ![p] =
       [Entry("Update", loc[p].rules, loc[p].params) EXCEPT
          !.round = 2, !.calls = loc[p].calls, !.start = Len(loc[p].calls),
          !.snap = [rules |-> remote.rules, params |-> remote.params]]]
  /\ remote' = remote

Next ==
  \E p \in Procs :
    \/ CreateParent(p) \/ UpdateParent(p)
    \/ SaveRuleUpdate(p) \/ SaveRuleCreate(p) \/ SaveRulesReturn(p)
    \/ PruneRulesRead(p) \/ PruneRuleKeep(p) \/ PruneRuleDestroy(p)
    \/ PruneRulesReturn(p)
    \/ PruneParamsEnter(p) \/ PruneParamKeep(p) \/ PruneParamDestroy(p)
    \/ PruneParamsReturn(p)
    \/ GetOneApp(p) \/ GetOneRules(p)
    \/ Reapply(p)

Spec == Init /\ [][Next]_vars

\* The same caller against a server whose rule update responses may lack the
\* id field.
InitNoEcho == InitWith(FALSE)
SpecNoEcho == InitNoEcho /\ [][Next]_vars

\* A remote store reached over a transport none of whose calls fails.
Reliable(r) == [r EXCEPT !.faulty = FALSE]

\* The desired rule lists of two concurrent callers: the order of a list only
\* orders the caller's own calls, so one order stands for all (identifiers
\* ascending, the rules without identifier last).
SortedRuleLists ==
  {s \in RuleLists :
     \A a, b \in DOMAIN s :
       a < b => /\ s[a] = Nil => s[b] = Nil
                /\ (s[a] # Nil /\ s[b] # Nil) => Deref(s[a]) < Deref(s[b])}

\* Every call succeeds, and there is one caller as before, or there are two
\* callers that run Update(AppID, app) at the same time on the same parent,
\* which has rules and no parameters, each with a desired rule list of its
\* own; the first may bring new rules, the second's rules all carry an
\* identifier.
InitConcurrent ==
  \/ \E op \in {"Create", "Update"}, rules \in RuleLists, params \in ParamMaps :
       /\ loc = [p \in Procs |-> IF p = 1 THEN Entry(op, rules, params) ELSE Idle]
       /\ remote \in {Reliable(r) : r \in Remotes(op, TRUE)}
  \/ \E rules1 \in SortedRuleLists,
        rules2 \in {s \in SortedRuleLists : ~HasNilID(s)} :
       /\ loc = [p \in Procs |->
                  Entry("Update", IF p = 1 THEN rules1 ELSE rules2, <<>>)]
       /\ remote \in {Reliable(r) : r \in {q \in Remotes("Update", TRUE) : q.params = {}}}

\* The steps of the two callers interleave in any order.
SpecConcurrent == InitConcurrent /\ [][Next]_vars

\* ======================================================== the properties
\* The numbers, ascending, of the calls of the running operation that pass Test.
CallsWhere(l, Test(_)) ==
  SelectSeq([k \in 1 .. Len(l.calls) - l.start |-> l.start + k],
            LAMBDA n : Test(l.calls[n]))

IsRuleDestroy(c) ==
  c.verb = "Destroy" /\ Len(c.url) = 4 /\ c.url[3] = "rules"
IsParamDestroy(c) ==
  c.verb = "Destroy" /\ Len(c.url) = 4 /\ c.url[3] = "parameters"
\* A create at the rule collection or an update at a rule endpoint.
IsRuleUpsert(c) ==
  \/ c.verb = "Create" /\ Len(c.url) = 3
  \/ c.verb = "Update" /\ Len(c.url) = 4

Range(s) == {s[k] : k \in 1..Len(s)}

\* The identifiers, in call order, the operation has issued a Destroy for.
DestroyedRules(l) ==
  LET D == CallsWhere(l, IsRuleDestroy)
  IN [k \in 1..Len(D) |-> l.calls[D[k]].url[4]]
DestroyedParams(l) ==
  LET D == CallsWhere(l, IsParamDestroy)
  IN [k \in 1..Len(D) |-> l.calls[D[k]].url[4]]

\* The errors of the failed calls among those numbered in the sequence D.
ErrorsOf(l, D) ==
  LET F == SelectSeq(D, LAMBDA n : ~l.calls[n].ok)
  IN [k \in 1..Len(F) |-> <<F[k]>>]

\* The identifiers a list of items carries.
IdsOf(items) == {Deref(items[k]) : k \in {x \in DOMAIN items : items[x] # Nil}}

\* C1: while and after pruneAppRules runs over the rules its re-read
\* returned, the Destroy calls it has issued are, one each and in order,
\* those for the remote rules passed so far whose identifier is not among
\* the identifiers of the desired rules; none is for a desired identifier.
C1_DeleteSet ==
  \A p \in Procs :
    LET l == loc[p]
    IN l.pc \in {"prune_rules", "prune_params_enter"} =>
         /\ DestroyedRules(l) =
              SelectSeq(SubSeq(l.savedRules, 1, l.j - 1),
                        LAMBDA id : id \notin IdsOf(l.rules))
         /\ \A n \in Range(CallsWhere(l, IsRuleDestroy)) :
              l.calls[n].url[2] = AppID

\* C1's case: the prune has returned after it destroyed a remote rule and
\* kept another.
C1_Witness ==
  \E p \in Procs :
    /\ loc[p].pc = "prune_params_enter"
    /\ Len(DestroyedRules(loc[p])) >= 1
    /\ \E id \in Range(loc[p].savedRules) : id \in IdsOf(loc[p].rules)

\* saveAppRules has returned in the running operation.
SaveReturned(l) ==
  /\ l.pc \notin {"idle", "parent", "save"}
  /\ l.calls[l.start + 1].ok

\* The number of the call saveAppRules issued for rule k.
SaveCall(l, k) == l.start + 1 + k

\* C2: when saveAppRules has returned, every rule of the list got exactly
\* one call (the operation's rule upserts are one per rule, in list order:
\* an Update at the rule's endpoint for a rule that entered with an
\* identifier, a Create at the collection otherwise), whichever of them
\* failed; the errors collected for the aggregator are, in order, those of
\* the failed calls, one each; and the result is a failure exactly when a
\* call failed.
C2_NoFailFast ==
  \A p \in Procs :
    LET l == loc[p]
        n == Len(l.inRules)
        S == [k \in 1..n |-> SaveCall(l, k)]
    IN SaveReturned(l) =>
         /\ CallsWhere(l, IsRuleUpsert) = S
         /\ \A k \in 1..n :
              LET c == l.calls[S[k]]
              IN IF l.inRules[k] = Nil
                 THEN c.verb = "Create" /\ c.url = RulesURL(AppID)
                 ELSE c.verb = "Update"
                      /\ c.url = RuleURL(AppID, Deref(l.inRules[k]))
         /\ l.writeErrors = ErrorsOf(l, S)
         /\ (l.err # NoErr) <=> (\E k \in 1..n : ~l.calls[S[k]].ok)

\* C2's case: the first of two rules failed, the second was still attempted
\* and succeeded, and one error was collected.
C2_Witness ==
  \E p \in Procs :
    LET l == loc[p]
    IN /\ SaveReturned(l) /\ Len(l.inRules) = 2
       /\ ~l.calls[SaveCall(l, 1)].ok /\ l.calls[SaveCall(l, 2)].ok
       /\ Len(l.writeErrors) = 1

\* C3: a rule that entered saveAppRules without identifier and whose Create
\* succeeded carries the id of that Create's response from then on, whatever
\* happened to the other rules of the batch.
C3_IdentifierBinding ==
  \A p \in Procs :
    LET l == loc[p]
    IN \A k \in 1..Len(l.resps) :
         (l.inRules[k] = Nil /\ l.resps[k].ok) =>
           /\ l.calls[SaveCall(l, k)].verb = "Create"
           /\ l.resps[k].body # Nil
           /\ l.rules[k] = Ptr(Deref(l.resps[k].body))

\* C3's case: of two new rules one Create failed and the other succeeded and
\* was bound.
C3_Witness ==
  \E p \in Procs :
    LET l == loc[p]
    IN /\ SaveReturned(l) /\ l.inRules = <<Nil, Nil>>
       /\ ~l.resps[1].ok /\ l.resps[2].ok
       /\ l.rules[1] = Nil /\ l.rules[2] # Nil

\* The numbers of the calls saveAppRules issued, one per rule.
SaveCalls(l) == [k \in 1..Len(l.inRules) |-> SaveCall(l, k)]
\* The parent call succeeded and a rule upsert of the operation failed.
SaveFailed(l) ==
  /\ SaveReturned(l)
  /\ \E k \in 1..Len(l.inRules) : ~l.calls[SaveCall(l, k)].ok
\* The remote parent as a full read returns it.
RemoteApp == MkApp(Ptr(AppID), remote.params, SeqOf(remote.rules))

\* C4: when Create or Update has returned after the parent call succeeded
\* and saveAppRules failed, the call after the last rule upsert is the
\* recovery read of the parent, the error returned is the aggregate of the
\* failed upserts (never the read's error), and the parent returned is the
\* one read if both reads of the recovery succeeded, and none otherwise.
C4_RecoveryKeepsUpsertError ==
  \A p \in Procs :
    LET l == loc[p]
        g == SaveCall(l, Len(l.inRules)) + 1
        N == Len(l.calls)
    IN (l.pc = "done" /\ SaveFailed(l)) =>
         /\ N >= g /\ N <= g + 1
         /\ l.calls[g].verb = "Read" /\ l.calls[g].url = AppURL(AppID)
         /\ l.ret.err = StackErrors(ErrorsOf(l, SaveCalls(l)))
         /\ l.ret.err # NoErr
         /\ l.ret.app = IF N = g + 1 /\ l.calls[g].ok /\ l.calls[N].ok
                        THEN Ptr(RemoteApp) ELSE Nil

\* C4's case: an Update whose upsert failed and whose recovery read failed
\* too has returned.
C4_Witness ==
  \E p \in Procs :
    LET l == loc[p]
    IN /\ l.pc = "done" /\ l.op = "Update" /\ SaveFailed(l)
       /\ ~l.calls[Len(l.calls)].ok
       /\ l.ret.app = Nil

\* A Destroy of the rule prune, or of the parameter prune, failed.
RulePruneFailed(l) == ErrorsOf(l, CallsWhere(l, IsRuleDestroy)) # <<>>
ParamPruneFailed(l) == ErrorsOf(l, CallsWhere(l, IsParamDestroy)) # <<>>
\* The failure Update is to report after a failed prune: the rule prune's
\* if it failed, else the parameter prune's.
PruneFailure(l) ==
  IF RulePruneFailed(l)
  THEN StackErrors(ErrorsOf(l, CallsWhere(l, IsRuleDestroy)))
  ELSE StackErrors(ErrorsOf(l, CallsWhere(l, IsParamDestroy)))

\* C5: whenever the rule prune or the parameter prune of an Update failed,
\* the Update returns a non-nil error; if the recovery read failed too, it
\* is the prune failure, with no parent.
C5_PruneFailureReported ==
  \A p \in Procs :
    LET l == loc[p]
    IN (l.pc = "done" /\ l.op = "Update"
        /\ (RulePruneFailed(l) \/ ParamPruneFailed(l))) =>
         /\ l.ret.err # NoErr
         /\ ~l.calls[Len(l.calls)].ok =>
              (l.ret.err = PruneFailure(l) /\ l.ret.app = Nil)

\* The operation has returned and none of its Create, Update and Destroy
\* calls failed.
FullSuccess(l) ==
  /\ l.pc = "done"
  /\ \A n \in l.start + 1 .. Len(l.calls) :
       l.calls[n].verb # "Read" => l.calls[n].ok

\* C6: on full success the operation ends with GetOne's reads, issued after
\* every Create, Update and Destroy call of the operation, and returns what
\* they gave: the remote parent and rules as they are at the end, with no
\* error, when both reads succeeded; the read's error otherwise (with no
\* parent if the parent read failed, with the parent read and no rules if
\* the rules read failed).
C6_FinalReRead ==
  \A p \in Procs :
    LET l == loc[p]
        N == Len(l.calls)
    IN FullSuccess(l) =>
         \E g \in {N - 1, N} :
           /\ g > l.start
           /\ l.calls[g].verb = "Read" /\ l.calls[g].url = AppURL(AppID)
           /\ \A n \in l.start + 1 .. N :
                /\ l.calls[n].verb # "Read" => n < g
                /\ n > g => l.calls[n].url = RulesURL(AppID)
           /\ l.calls[g].ok <=> g = N - 1
           /\ l.ret =
                IF g = N THEN [app |-> Nil, err |-> <<N>>]
                ELSE IF l.calls[N].ok THEN [app |-> Ptr(RemoteApp), err |-> NoErr]
                ELSE [app |-> Ptr([RemoteApp EXCEPT !.Rules = <<>>]), err |-> <<N>>]

\* C6's case: an Update that created a rule and destroyed a rule and a
\* parameter has returned the final read.
C6_Witness ==
  \E p \in Procs :
    LET l == loc[p]
    IN /\ FullSuccess(l) /\ l.op = "Update" /\ l.ret.err = NoErr
       /\ \E k \in 1..Len(l.inRules) : l.inRules[k] = Nil
       /\ DestroyedRules(l) # <<>> /\ DestroyedParams(l) # <<>>
       /\ l.ret.app = Ptr(RemoteApp)

IsRuleCreate(c) == c.verb = "Create" /\ Len(c.url) = 3
IsDestroy(c) == c.verb = "Destroy"

\* C7: in a second Update run with the same fully identified desired set
\* after a first whose calls all succeeded, as long as every call of the
\* second succeeds it has issued no rule Create and no Destroy, and the
\* remote rules and parameters are those the first Update left.
C7_IdempotentReapply ==
  \A p \in Procs :
    LET l == loc[p]
    IN (l.round = 2 /\ AllOk(l)) =>
         /\ CallsWhere(l, IsRuleCreate) = <<>>
         /\ CallsWhere(l, IsDestroy) = <<>>
         /\ remote.rules = l.snap.rules
         /\ remote.params = l.snap.params

\* C7's case: the second Update of a desired set holding a rule and a
\* parameter has returned with every call succeeded, after a first Update
\* that destroyed remote items.
C7_Witness ==
  \E p \in Procs :
    LET l == loc[p]
    IN /\ l.round = 2 /\ l.pc = "done" /\ AllOk(l) /\ l.ret.err = NoErr
       /\ l.inRules # <<>> /\ l.params # <<>>
       /\ \E n \in 1..l.start : l.calls[n].verb = "Destroy"
       /\ Len(l.calls) > l.start + 3

\* The step appends a call to process p's log; the call appended.
NewCall(p) == Len(loc'[p].calls) = Len(loc[p].calls) + 1
TheCall(p) == loc'[p].calls[Len(loc'[p].calls)]

\* C8: every step of pruneAppRules over a remote rule either passes it over
\* without a call, when its identifier is a desired rule identifier, or
\* issues a Destroy at that rule's endpoint of the parent; every step of
\* pruneParameters over a parameter of the parent either passes it over,
\* when its identifier is a desired parameter identifier, or issues a
\* Destroy at that parameter's endpoint of the parent; the identifiers of
\* the other kind play no part, and no other step issues a Destroy.
C8_NoCrossContamination ==
  [][\A p \in Procs :
       LET l == loc[p]
       IN /\ (l.pc = "prune_rules" /\ loc'[p] # l /\ l.j <= Len(l.savedRules)) =>
               LET id == l.savedRules[l.j]
               IN IF id \in IdsOf(l.rules)
                  THEN ~NewCall(p)
                  ELSE /\ NewCall(p) /\ TheCall(p).verb = "Destroy"
                       /\ TheCall(p).url = <<"apps", AppID, "rules", id>>
          /\ (l.pc = "prune_params" /\ loc'[p] # l /\ l.cand # {}) =>
               \E id \in l.cand :
                 /\ loc'[p].cand = l.cand \ {id}
                 /\ IF id \in IdsOf(l.params)
                    THEN ~NewCall(p)
                    ELSE /\ NewCall(p) /\ TheCall(p).verb = "Destroy"
                         /\ TheCall(p).url = <<"apps", AppID, "parameters", id>>
          /\ (NewCall(p) /\ TheCall(p).verb = "Destroy") =>
               l.pc \in {"prune_rules", "prune_params"}
    ]_vars

\* C8's case: a parameter was destroyed whose identifier is also that of a
\* desired rule the rule prune read and kept.
C8_Witness ==
  \E p \in Procs :
    LET l == loc[p]
    IN \E k \in Range(DestroyedParams(l)) :
         /\ k \in IdsOf(l.rules) /\ k \in Range(l.savedRules)
         /\ k \notin Range(DestroyedRules(l))

\* C9: once the parent call of Create or Update has failed, the operation
\* has returned that call's error and its log ends with that call: no child
\* upsert, read or destroy follows.
C9_ParentFailureFatal ==
  \A p \in Procs :
    LET l == loc[p]
    IN (Len(l.calls) > l.start /\ ~l.calls[l.start + 1].ok) =>
         /\ l.pc = "done"
         /\ Len(l.calls) = l.start + 1
         /\ l.ret.err = <<l.start + 1>>

\* C9's case: the parent call of an Update with rules to save has failed.
C9_Witness ==
  \E p \in Procs :
    LET l == loc[p]
    IN /\ l.op = "Update" /\ l.pc = "done" /\ l.inRules # <<>>
       /\ Len(l.calls) = 1 /\ ~l.calls[1].ok

\* C10: when an Update has returned after a prune failed and the recovery
\* read succeeded, the error returned is the rule prune's failure if the rule
\* prune failed (whether or not the parameter prune failed too), else the
\* parameter prune's, and the parent returned is the recovered one.
C10_RulePruneErrorFirst ==
  \A p \in Procs :
    LET l == loc[p]
    IN (l.pc = "done" /\ l.op = "Update"
        /\ (RulePruneFailed(l) \/ ParamPruneFailed(l))
        /\ l.calls[Len(l.calls)].ok) =>
         /\ l.ret.err = PruneFailure(l)
         /\ l.ret.err # NoErr
         /\ l.ret.app = Ptr(RemoteApp)

\* C10's case: both prunes failed and the recovery read succeeded.
C10_Witness ==
  \E p \in Procs :
    LET l == loc[p]
    IN /\ l.pc = "done" /\ l.op = "Update"
       /\ RulePruneFailed(l) /\ ParamPruneFailed(l)
       /\ l.calls[Len(l.calls)].ok /\ l.ret.app # Nil

\* The number of the call that follows the last rule upsert.
AfterSaveCall(l) == SaveCall(l, Len(l.inRules)) + 1
\* The re-read of pruneAppRules (the read of the rule collection right after
\* the upserts) was issued and failed.
PruneReadFailed(l) ==
  /\ l.op = "Update" /\ Len(l.calls) >= AfterSaveCall(l)
  /\ l.calls[AfterSaveCall(l)].verb = "Read"
  /\ l.calls[AfterSaveCall(l)].url = <<"apps", AppID, "rules">>
  /\ ~l.calls[AfterSaveCall(l)].ok

\* C11: once the re-read of pruneAppRules has failed, the Update issues no
\* rule Destroy, the rule prune reports no failure, the next call is the
\* parameter prune's or the final read's (the Update stops before only
\* where pruneParameters dereferences a desired parameter's absent
\* identifier), and if no parameter Destroy fails the Update returns what
\* the final read gives, as after a clean prune.
C11_FailedReReadIsNoOp ==
  \A p \in Procs :
    LET l == loc[p]
        g == AfterSaveCall(l)
        N == Len(l.calls)
    IN PruneReadFailed(l) =>
         /\ DestroyedRules(l) = <<>>
         /\ l.savedRules = <<>> /\ l.pruneRuleErr = NoErr
         /\ l.pc # "prune_read"
         /\ l.pc = "panic" => HasNilID(l.params)
         /\ N > g => \/ IsParamDestroy(l.calls[g + 1])
                     \/ /\ l.calls[g + 1].verb = "Read"
                        /\ l.calls[g + 1].url = <<"apps", AppID>>
         /\ (l.pc = "done" /\ ~ParamPruneFailed(l)) =>
              /\ l.cont = "final"
              /\ (l.calls[N].ok /\ l.calls[N - 1].ok) =>
                   l.ret = [app |-> Ptr(RemoteApp), err |-> NoErr]

\* C11's case: an Update whose re-read failed has returned without error
\* while the remote parent still holds a rule that is not desired.
C11_Witness ==
  \E p \in Procs :
    LET l == loc[p]
    IN /\ PruneReadFailed(l) /\ l.pc = "done" /\ l.ret.err = NoErr
       /\ \E id \in remote.rules : id \notin IdsOf(l.rules)

\* C12: every iteration of saveAppRules issues exactly one call, for the
\* first rule of the list not handled yet (so the call for rule i precedes
\* the call for rule j whenever i < j): an Update at that rule's endpoint
\* if the rule carries an identifier, a Create at the parent's rule
\* collection if it carries none; it leaves the other rules as they are and
\* moves on to the next rule.
C12_OrderedUpserts ==
  [][\A p \in Procs :
       LET l == loc[p]
       IN (l.pc = "save" /\ loc'[p] # l /\ l.i <= Len(l.rules)) =>
            /\ Len(l.calls) = l.start + l.i
            /\ l.rules[l.i] = l.inRules[l.i]
            /\ NewCall(p)
            /\ IF l.inRules[l.i] = Nil
               THEN /\ TheCall(p).verb = "Create"
                    /\ TheCall(p).url = <<"apps", AppID, "rules">>
               ELSE /\ TheCall(p).verb = "Update"
                    /\ TheCall(p).url =
                         <<"apps", AppID, "rules", Deref(l.inRules[l.i])>>
            /\ loc'[p].pc = "save" /\ loc'[p].i = l.i + 1
            /\ \A k \in DOMAIN l.rules \ {l.i} : loc'[p].rules[k] = l.rules[k]
    ]_vars

\* C12's case: the loop has handled a rule with an identifier and then a
\* rule without, by an Update followed by a Create.
C12_Witness ==
  \E p \in Procs :
    LET l == loc[p]
    IN /\ l.pc = "save" /\ l.i = 3 /\ Len(l.inRules) = 2
       /\ l.inRules[1] # Nil /\ l.inRules[2] = Nil
       /\ l.calls[SaveCall(l, 1)].verb = "Update"
       /\ l.calls[SaveCall(l, 2)].verb = "Create"

\* Both prunes of the running Update have returned.
PrunesReturned(l) ==
  l.op = "Update" /\ l.cont \in {"final", "recoverPrune"}

\* C13: an Update whose desired parameters include one without identifier
\* does not crash, and once its parameter prune has returned it has issued
\* one Destroy for each parameter of the updated parent whose identifier
\* is not among the identifiers the desired parameters carry, and no other.
C13_ParamPruneTolerates ==
  \A p \in Procs :
    LET l == loc[p]
    IN (l.op = "Update" /\ HasNilID(l.params)) =>
         /\ l.pc # "panic"
         /\ PrunesReturned(l) =>
              /\ Range(DestroyedParams(l)) = l.upd.Parameters \ IdsOf(l.params)
              /\ Len(DestroyedParams(l)) =
                   Cardinality(l.upd.Parameters \ IdsOf(l.params))

\* C14: when the parent call of Create has failed, Create has returned that
\* call's error together with no parent (a nil *App).
C14_CreateFailureNoParent ==
  \A p \in Procs :
    LET l == loc[p]
    IN (l.op = "Create" /\ Len(l.calls) >= 1 /\ ~l.calls[1].ok) =>
         /\ l.pc = "done"
         /\ l.ret.err = <<1>>
         /\ l.ret.app = Nil

\* C15: a rule that entered saveAppRules with identifier k and whose Update
\* call succeeded still carries k afterwards, whatever the body of the
\* response was.
C15_IdentifierFixed ==
  \A p \in Procs :
    LET l == loc[p]
    IN \A k \in 1..Len(l.resps) :
         (l.inRules[k] # Nil /\ l.resps[k].ok) => l.rules[k] = l.inRules[k]

\* Two callers have each run one Update, and both have returned.
BothReturned ==
  \A p \in Procs :
    loc[p].op = "Update" /\ loc[p].pc = "done" /\ loc[p].round = 1
\* The rules the parent has held at some time: those it holds and those a
\* caller read and destroyed.
Existed ==
  remote.rules \cup UNION {Range(DestroyedRules(loc[p])) : p \in Procs}
\* The desired rule set of caller p's Update: the rules of its list, the new
\* ones under the identifiers their Create responses gave them.
DesiredSet(p) == IdsOf(loc[p].rules) \cap Existed

\* C16 as claimed: when two concurrent Updates of the same parent have both
\* returned and every call succeeded, the remote rule set is the desired
\* rule set of one of them.
C16_LastWriteWins ==
  (BothReturned /\ \A p \in Procs : AllOk(loc[p])) =>
    \E p \in Procs : remote.rules = DesiredSet(p)

\* C16 as amended: when two concurrent Updates of the same parent have both
\* returned and every call succeeded, every rule the remote parent holds is
\* in the desired rule set of at least one of them.
C16_OnlyDesiredRemain ==
  (BothReturned /\ \A p \in Procs : AllOk(loc[p])) =>
    remote.rules \subseteq DesiredSet(1) \cup DesiredSet(2)

\* C16's case: both Updates have returned, each destroyed a rule, and the
\* remote parent holds a rule but the desired rule set of neither.
C16_Witness ==
  /\ BothReturned /\ \A p \in Procs : AllOk(loc[p])
  /\ \A p \in Procs : DestroyedRules(loc[p]) # <<>>
  /\ remote.rules # {}
  /\ \A p \in Procs : remote.rules # DesiredSet(p)

\* A read of the rule collection that is not GetOne's (GetOne reads the
\* rules right after it read the parent): the re-read of a prune.
IsPruneReRead(l, n) ==
  /\ l.calls[n].verb = "Read" /\ l.calls[n].url = <<"apps", AppID, "rules">>
  /\ ~(l.calls[n - 1].verb = "Read" /\ l.calls[n - 1].url = <<"apps", AppID>>
       /\ l.calls[n - 1].ok)

\* C17: an operation that has issued a Destroy or a prune re-read is an
\* Update whose parent call and rule upserts, one per rule, all came before
\* and all succeeded; so Create issues neither, and an Update in which an
\* upsert failed issues neither.
C17_PruneOnlyAfterCleanUpsert ==
  \A p \in Procs :
    LET l == loc[p]
    IN \A n \in l.start + 1 .. Len(l.calls) :
         (IsDestroy(l.calls[n]) \/ IsPruneReRead(l, n)) =>
           /\ l.op = "Update"
           /\ n >= AfterSaveCall(l)
           /\ \A k \in l.start + 1 .. AfterSaveCall(l) - 1 : l.calls[k].ok
           /\ l.err = NoErr

\* C17's case: an Update in which an upsert failed has returned after its
\* recovery reads while the remote parent holds a rule that is not desired.
C17_Witness ==
  \E p \in Procs :
    LET l == loc[p]
    IN /\ l.op = "Update" /\ l.pc = "done" /\ SaveFailed(l)
       /\ Len(l.calls) = AfterSaveCall(l) + 1
       /\ \E id \in remote.rules : id \notin IdsOf(l.rules)

\* The identifiers bound during the running operation: those of the
\* responses to the successful Creates of its rules.
BoundNow(l) ==
  {Deref(l.resps[k].body) :
     k \in {x \in 1..Len(l.resps) : l.inRules[x] = Nil /\ l.resps[x].ok}}

\* C18: no Destroy of an Update targets an identifier bound during that
\* Update, and after the rule prune the remote parent still holds every
\* rule the Update created.
C18_CreatedRulesSurvivePrune ==
  \A p \in Procs :
    LET l == loc[p]
    IN /\ BoundNow(l) \cap Range(DestroyedRules(l)) = {}
       /\ (l.op = "Update" /\ l.pc \in {"prune_rules", "prune_params_enter"}) =>
            /\ BoundNow(l) \subseteq remote.rules
            /\ l.calls[AfterSaveCall(l)].ok => BoundNow(l) \subseteq Range(l.savedRules)

\* C18's case: the rule prune of an Update has returned after it read a
\* rule the Update created, passed it over, and destroyed another rule.
C18_Witness ==
  \E p \in Procs :
    LET l == loc[p]
    IN /\ l.op = "Update" /\ l.pc = "prune_params_enter"
       /\ BoundNow(l) # {} /\ BoundNow(l) \subseteq Range(l.savedRules)
       /\ DestroyedRules(l) # <<>>

\* C19: a rule whose Create or Update call failed carries, from then on,
\* the identifier it entered saveAppRules with (none if it entered with
\* none), also when an earlier call of the batch succeeded and bound its
\* response.
C19_FailedUpsertKeepsIdentifier ==
  \A p \in Procs :
    LET l == loc[p]
    IN \A k \in 1..Len(l.resps) :
         ~l.resps[k].ok =>
           /\ l.rules[k] = l.inRules[k]
           /\ ~l.calls[SaveCall(l, k)].ok

\* C19's case: the Create of the first rule succeeded and was bound, the
\* call for the second rule failed, and saveAppRules has returned.
C19_Witness ==
  \E p \in Procs :
    LET l == loc[p]
    IN /\ SaveReturned(l) /\ Len(l.inRules) = 2
       /\ l.inRules[1] = Nil /\ l.resps[1].ok /\ l.rules[1] # Nil
       /\ ~l.resps[2].ok /\ l.rules[2] = l.inRules[2]

\* The parameters of the updated parent the parameter prune is to destroy.
ParamCandidates(l) == l.upd.Parameters \ IdsOf(l.params)

\* C20: an Update that has got past its rule prune with a failure has run
\* the parameter prune all the same (if it stopped, it stopped inside the
\* parameter prune); and once both prunes have returned,
\* whichever Destroy calls failed, the rule prune has issued one Destroy for
\* every remote rule it read that is not desired, in the order read, and
\* the parameter prune, after the last rule Destroy, one for every
\* parameter of the parent that is not desired.
C20_PrunesIndependent ==
  \A p \in Procs :
    LET l == loc[p]
        R == CallsWhere(l, IsRuleDestroy)
        P == CallsWhere(l, IsParamDestroy)
    IN /\ (l.op = "Update" /\ l.pruneRuleErr # NoErr
           /\ l.pc \in {"getone_app", "getone_rules", "done"}) =>
            PrunesReturned(l)
       /\ (l.pruneRuleErr # NoErr /\ l.pc = "panic") => HasNilID(l.params)
       /\ PrunesReturned(l) =>
            /\ DestroyedRules(l) =
                 SelectSeq(l.savedRules, LAMBDA id : id \notin IdsOf(l.rules))
            /\ Range(DestroyedParams(l)) = ParamCandidates(l)
            /\ Len(P) = Cardinality(ParamCandidates(l))
            /\ \A a \in Range(R), b \in Range(P) : a < b
            /\ l.pruneRuleErr = StackErrors(ErrorsOf(l, R))
            /\ l.pruneParamErr = StackErrors(ErrorsOf(l, P))

\* C20's case: a Destroy of the rule prune failed, and the parameter prune
\* then issued a Destroy, which succeeded.
C20_Witness ==
  \E p \in Procs :
    LET l == loc[p]
        P == CallsWhere(l, IsParamDestroy)
    IN /\ PrunesReturned(l) /\ RulePruneFailed(l)
       /\ P # <<>> /\ l.calls[P[1]].ok
       /\ l.pruneRuleErr # NoErr /\ l.pruneParamErr = NoErr
====
